---- MODULE Spec2Model ----
(***************************************************************************)
(* GICv3 driver of the bare-metal RTC exercise: the repr(C) register       *)
(* blocks (GICD, GICR, SGI), GicV3::new, GicV3::setup and the start-up     *)
(* sequence of main().  A register value is the set of its set bit         *)
(* positions, so that 32-bit values such as 0xffffffff are exact.          *)
(***************************************************************************)
EXTENDS Integers, Sequences, FiniteSets, TLC

(* ------------------------------------------------------------------ *)
(* Register values                                                     *)
(* ------------------------------------------------------------------ *)

\* bit positions of a 32-bit register
WordBits == 0 .. 31

\* the bits of a number below 2^31, as written in the source (0x1 << 4 ...)
Bits(n) == { b \in 0 .. 30 : (n \div (2 ^ b)) % 2 = 1 }

\* the number a set of bits (all below 31) stands for
RECURSIVE Value(_)
Value(w) ==
  IF w = {} THEN 0
  ELSE LET b == CHOOSE x \in w : \A y \in w : y <= x
       IN  (2 ^ b) + Value(w \ {b})

\* a 32-bit literal given by its two 16-bit halves
Word32(hi, lo) == Bits(lo) \cup { b + 16 : b \in Bits(hi) }

\* x << n on numbers
Shl(x, n) == x * (2 ^ n)

\* a | b and a & !b on register values
BitOr(a, b) == a \cup b
BitClear(a, b) == a \ b

(* ------------------------------------------------------------------ *)
(* Register block layouts: <<field, element size in bytes, elements>>   *)
(* in declaration order                                                *)
(* ------------------------------------------------------------------ *)

GICD ==
  <<
    <<"ctlr", 4, 1>>,
    <<"typer", 4, 1>>,
    <<"iidr", 4, 1>>,
    <<"typer2", 4, 1>>,
    <<"statusr", 4, 1>>,
    <<"_reserved0", 4, 3>>,
    <<"implementation_defined", 4, 8>>,
    <<"setspi_nsr", 4, 1>>,
    <<"_reserved1", 4, 1>>,
    <<"clrspi_nsr", 4, 1>>,
    <<"_reserved2", 4, 1>>,
    <<"setspi_sr", 4, 1>>,
    <<"_reserved3", 4, 1>>,
    <<"clrspi_sr", 4, 1>>,
    <<"_reserved4", 4, 9>>,
    <<"igroupr", 4, 32>>,
    <<"isenabler", 4, 32>>,
    <<"icenabler", 4, 32>>,
    <<"ispendr", 4, 32>>,
    <<"icpendr", 4, 32>>,
    <<"isactiver", 4, 32>>,
    <<"icactiver", 4, 32>>,
    <<"ipriorityr", 1, 1024>>,
    <<"itargetsr", 4, 256>>,
    <<"icfgr", 4, 64>>,
    <<"igrpmodr", 4, 32>>,
    <<"_reserved5", 4, 32>>,
    <<"nsacr", 4, 64>>,
    <<"sigr", 4, 1>>,
    <<"_reserved6", 4, 3>>,
    <<"cpendsgir", 4, 4>>,
    <<"spendsgir", 4, 4>>,
    <<"_reserved7", 4, 20>>,
    <<"inmir", 4, 32>>,
    <<"igroupr_e", 4, 32>>,
    <<"_reserved8", 4, 96>>,
    <<"isenabler_e", 4, 32>>,
    <<"_reserved9", 4, 96>>,
    <<"icenabler_e", 4, 32>>,
    <<"_reserved10", 4, 96>>,
    <<"ispendr_e", 4, 32>>,
    <<"_reserved11", 4, 96>>,
    <<"icpendr_e", 4, 32>>,
    <<"_reserved12", 4, 96>>,
    <<"isactive_e", 4, 32>>,
    <<"_reserved13", 4, 96>>,
    <<"icactive_e", 4, 32>>,
    <<"_reserved14", 4, 224>>,
    <<"ipriorityr_e", 1, 1024>>,
    <<"_reserved15", 4, 768>>,
    <<"icfgr_e", 4, 64>>,
    <<"_reserved16", 4, 192>>,
    <<"igrpmodr_e", 4, 32>>,
    <<"_reserved17", 4, 96>>,
    <<"nsacr_e", 4, 32>>,
    <<"_reserved18", 4, 288>>,
    <<"inmr_e", 4, 32>>,
    <<"_reserved19", 4, 2400>>,
    <<"irouter", 4, 1975>>,
    <<"_reserved20", 4, 9>>,
    <<"irouter_e", 4, 2048>>,
    <<"_reserved21", 4, 2048>>,
    <<"implementation_defined2", 4, 4084>>,
    <<"id_registers", 4, 12>>
  >>

GICR ==
  <<
    <<"ctlr", 4, 1>>,
    <<"iidr", 4, 1>>,
    <<"typer", 8, 1>>,
    <<"statusr", 4, 1>>,
    <<"waker", 4, 1>>,
    <<"mpamidr", 4, 1>>,
    <<"partidr", 4, 1>>,
    <<"implementation_defined1", 4, 8>>,
    <<"setlprir", 8, 1>>,
    <<"clrlpir", 8, 1>>,
    <<"_reserved0", 4, 8>>,
    <<"propbaser", 8, 1>>,
    <<"pendbaser", 8, 1>>,
    <<"_reserved1", 4, 8>>,
    <<"invlpir", 8, 1>>,
    <<"_reserved2", 8, 1>>,
    <<"invallr", 8, 1>>,
    <<"_reserved3", 8, 1>>,
    <<"syncr", 4, 1>>,
    <<"_reserved4", 4, 15>>,
    <<"implementation_defined2", 8, 1>>,
    <<"_reserved5", 8, 1>>,
    <<"implementation_defined3", 8, 1>>,
    <<"_reserved6", 4, 12218>>,
    <<"implementation_defined4", 4, 4084>>,
    <<"id_registers", 4, 12>>
  >>

SGI ==
  <<
    <<"_reserved0", 4, 32>>,
    <<"igroupr0", 4, 1>>,
    <<"igroupr_e", 4, 2>>,
    <<"_reserved1", 4, 29>>,
    <<"isenabler0", 4, 1>>,
    <<"isenabler_e", 4, 2>>,
    <<"_reserved2", 4, 29>>,
    <<"icenabler0", 4, 1>>,
    <<"icenabler_e", 4, 2>>,
    <<"_reserved3", 4, 29>>,
    <<"ispendr0", 4, 1>>,
    <<"ispendr_e", 4, 2>>,
    <<"_reserved4", 4, 29>>,
    <<"icpendr0", 4, 1>>,
    <<"icpendr_e", 4, 2>>,
    <<"_reserved5", 4, 29>>,
    <<"isactiver0", 4, 1>>,
    <<"isactive_e", 4, 2>>,
    <<"_reserved6", 4, 29>>,
    <<"icactiver0", 4, 1>>,
    <<"icactive_e", 4, 2>>,
    <<"_reserved7", 4, 29>>,
    <<"ipriorityr", 1, 32>>,
    <<"ipriorityr_e", 1, 64>>,
    <<"_reserved8", 4, 488>>,
    <<"icfgr0", 4, 1>>,
    <<"icfgr1", 4, 1>>,
    <<"icfgr_e", 4, 4>>,
    <<"_reserved9", 4, 58>>,
    <<"igrpmodr0", 4, 1>>,
    <<"igrpmodr_e", 4, 2>>,
    <<"_reserved10", 4, 61>>,
    <<"nsacr", 4, 1>>,
    <<"_reserved11", 4, 95>>,
    <<"inmir0", 4, 1>>,
    <<"inmir_e", 4, 31>>,
    <<"_reserved12", 4, 11264>>,
    <<"implementation_defined", 4, 4084>>,
    <<"_reserved13", 4, 12>>
  >>

\* #[repr(C, align(8))] on each of the three blocks
StructAlign == 8

Layouts == [GICD |-> GICD, GICR |-> GICR, SGI |-> SGI]

AlignUp(off, a) == off + ((a - (off % a)) % a)

\* repr(C): a field starts at the end of the previous one, rounded up to
\* its own alignment (the element size, for u8 / u32 / u64)
\* where a field placed after a block's first prevEnd bytes starts
PlaceField(layout, i, prevEnd) == AlignUp(prevEnd, layout[i][2])

\* FieldEnd with an array field taken for a single element
FieldEnd_OneElement(layout, i, start) == start + layout[i][2]

\* where that field ends
FieldEnd(layout, i, start) == start + layout[i][2] * layout[i][3]

\* the end of fields lo .. hi laid out one after the other from byte off
\* (the range is halved, and the left half evaluated first, so that the
\* evaluation stays shallow; a layout never ends before it starts)
RECURSIVE LayoutEnd(_, _, _, _)
LayoutEnd(layout, lo, hi, off) ==
  IF lo > hi THEN off
  ELSE IF lo = hi THEN FieldEnd(layout, lo, PlaceField(layout, lo, off))
  ELSE LET mid == (lo + hi) \div 2
           left == LayoutEnd(layout, lo, mid, off)
       IN  IF left >= off THEN LayoutEnd(layout, mid + 1, hi, left) ELSE -1

EndOfField(layout, i) == LayoutEnd(layout, 1, i, 0)

FieldStart(layout, i) == PlaceField(layout, i, EndOfField(layout, i - 1))

FieldIndex(layout, name) ==
  CHOOSE i \in 1 .. Len(layout) : layout[i][1] = name

OffsetOf(layout, name) == FieldStart(layout, FieldIndex(layout, name))

SizeOf(layout) == AlignUp(EndOfField(layout, Len(layout)), StructAlign)

\* addr_of!((*base).field[idx])
ElemAddr(base, layout, name, idx) ==
  base + OffsetOf(layout, name) + idx * layout[FieldIndex(layout, name)][2]

(* ------------------------------------------------------------------ *)
(* Program constants                                                   *)
(* ------------------------------------------------------------------ *)

\* const SGI_OFFSET: usize = 0x10000 ("the offset in bytes from RD_base to SGI_base")
SGI_OFFSET == 65536
\* const GICD_BASE_ADDRESS: *mut u64 = 0x800_0000
GICD_BASE_ADDRESS == 134217728
\* const GICR_BASE_ADDRESS: *mut u64 = 0x80A_0000
GICR_BASE_ADDRESS == 134873088
\* const PL031_IRQ: u32 = 2
PL031_IRQ == 2
\* size_of::<u64>(): the pointee of the `gicr: *mut u64` argument of new
PointeeSize == 8

\* bitflags Waker
CHILDREN_ASLEEP == Bits(Shl(1, 2))
PROCESSOR_SLEEP == Bits(Shl(1, 1))

(* ------------------------------------------------------------------ *)
(* Bounds of the model                                                 *)
(* ------------------------------------------------------------------ *)

\* Redistributor base addresses tried: GICR_BASE_ADDRESS and the frames after it
NumRedist == 2
\* register reset patterns tried: FillWord(0) .. FillWord(MaxFill)
MaxFill == 2

\* reset pattern k: 0 is all-zero, 1 is all-ones, k > 1 sets every k-th bit
FillWord(k) == IF k = 0 THEN {} ELSE { b \in WordBits : b % k = 0 }

\* the Redistributor bases: one RD frame and one SGI frame per CPU
GicrBases == { GICR_BASE_ADDRESS + k * (2 * SGI_OFFSET) : k \in 0 .. (NumRedist - 1) }

\* the bits of the waker register whose initial value varies: the two flags,
\* and one unnamed bit below and one above them
WakerInitBits == PROCESSOR_SLEEP \cup CHILDREN_ASLEEP \cup {0, 31}

(* ------------------------------------------------------------------ *)
(* State                                                               *)
(* ------------------------------------------------------------------ *)

VARIABLES
  pc,            \* main(): the statement about to run ("L59" is line 59 of main.rs)
  spc,           \* setup(): the statement about to run, "entry" before, "returned" after
  platform,      \* the two base addresses handed to GicV3::new
  gic,           \* the GicV3 facade: [gicd, gicr, sgi], or NoGic before new
  mem,           \* memory-mapped registers, by byte address
  sysreg,        \* CPU system registers, by name
  waker,         \* setup(): the local `waker`
  waker_logged,  \* setup(): the value of the last read of waker (line 322)
  irq_masked,    \* the CPU's interrupt mask
  writes,        \* the register writes of setup(), in program order
  calls,         \* the facade operations main() has called, in order
  mem0,          \* the registers as they were before setup()
  lq,            \* layout query: <<block, field index>>, index 0 asks the block's size
  lres           \* layout answer: a byte offset or size, -1 before the answer

vars == <<pc, spc, platform, gic, mem, sysreg, waker, waker_logged, irq_masked,
          writes, calls, mem0, lq, lres>>

NoGic == [gicd |-> -1, gicr |-> -1, sgi |-> -1]
NoQuery == <<"none", 0>>

\* gicr.offset(count): pointer arithmetic in units of the pointee
PtrOffset(p, count) == p + count * PointeeSize

\* GicV3::new
NewGicV3(gicd, gicr) ==
  [gicd |-> gicd, gicr |-> gicr, sgi |-> PtrOffset(gicr, SGI_OFFSET)]

\* the registers of the three blocks the model keeps: <<block, field, index>>
ModelRegs ==
  { <<"GICD", "ctlr", 0>>,
    <<"GICD", "igroupr", 0>>, <<"GICD", "igroupr", 1>>, <<"GICD", "igroupr", 31>>,
    <<"GICD", "igroupr_e", 0>>,
    <<"GICD", "isenabler", 0>>, <<"GICD", "isenabler_e", 0>>,
    <<"GICD", "ispendr", 0>>, <<"GICD", "isactiver", 0>>,
    <<"GICD", "ipriorityr", 32>>, <<"GICD", "icfgr", 2>>,
    <<"GICR", "waker", 0>>,
    <<"SGI", "igroupr0", 0>>, <<"SGI", "igroupr_e", 0>>,
    <<"SGI", "isenabler0", 0>>, <<"SGI", "isenabler_e", 0>>,
    <<"SGI", "ispendr0", 0>>, <<"SGI", "isactiver0", 0>>,
    <<"SGI", "ipriorityr", 2>>, <<"SGI", "ipriorityr", 3>>,
    <<"SGI", "icfgr0", 0>>, <<"SGI", "icfgr1", 0>> }

BlockBase(g, block) ==
  IF block = "GICD" THEN g.gicd ELSE IF block = "GICR" THEN g.gicr ELSE g.sgi

\* the byte address of a register through the facade's pointers
RegAddr(g, r) == ElemAddr(BlockBase(g, r[1]), Layouts[r[1]], r[2], r[3])

\* the bits a register of the given element size holds
RegBits(r) == 0 .. (8 * Layouts[r[1]][FieldIndex(Layouts[r[1]], r[2])][2] - 1)

GicdCtlrAddr(g) == RegAddr(g, <<"GICD", "ctlr", 0>>)
GicdIgroupr0Addr(g) == RegAddr(g, <<"GICD", "igroupr", 0>>)
WakerAddr(g) == RegAddr(g, <<"GICR", "waker", 0>>)
SgiIgroupr0Addr(g) == RegAddr(g, <<"SGI", "igroupr0", 0>>)

\* the registers before main() runs: waker holds w, every other one pattern f
InitMem(g, w, f) ==
  [ a \in { RegAddr(g, r) : r \in ModelRegs } |->
      IF a = WakerAddr(g) THEN w
      ELSE LET r == CHOOSE x \in ModelRegs : RegAddr(g, x) = a
           IN  FillWord(f) \cap RegBits(r) ]

Init ==
  /\ pc = "L59"
  /\ spc = "entry"
  /\ platform \in [gicd : {GICD_BASE_ADDRESS}, gicr : GicrBases]
  /\ gic = NoGic
  /\ \E w \in SUBSET WakerInitBits, f \in 0 .. MaxFill :
       mem = InitMem(NewGicV3(platform.gicd, platform.gicr), w, f)
  /\ \E s \in 0 .. MaxFill :
       sysreg = [icc_ctlr_el1 |-> Value(FillWord(s) \cap (0 .. 7)),
                 icc_igrpen1_el1 |-> Value(FillWord(s) \cap (0 .. 1)),
                 icc_pmr_el1 |-> 0,
                 icc_sgi1r_el1 |-> 0]
  /\ waker = {}
  /\ waker_logged = {}
  /\ irq_masked = TRUE
  /\ writes = <<>>
  /\ calls = <<>>
  /\ mem0 = mem
  /\ lq = NoQuery
  /\ lres = -1

(* ------------------------------------------------------------------ *)
(* main(): statement order                                             *)
(* ------------------------------------------------------------------ *)

\* MainLines with the first irq_enable() moved before setup()
MainLines_UnmaskFirst ==
  << "L59", "L66", "L60", "L64", "L65", "L67", "L68", "L69", "L70", "L71",
     "L73", "L75", "L76", "L77", "L78", "L82", "L87", "L88", "L89", "L90",
     "L91", "L93", "L100", "L106" >>

\* the statements of main() that touch the controller or decide control flow
MainLines ==
  << "L59", "L60", "L64", "L65", "L66", "L67", "L68", "L69", "L70", "L71",
     "L73", "L75", "L76", "L77", "L78", "L82", "L87", "L88", "L89", "L90",
     "L91", "L93", "L100", "L106" >>

\* the statement after l; "off" after system_off()
After(l) ==
  LET i == CHOOSE k \in 1 .. Len(MainLines) : MainLines[k] = l
  IN  IF i = Len(MainLines) THEN "off" ELSE MainLines[i + 1]

Called(name, arg) == calls' = Append(calls, <<name, arg>>)

\* write_volatile through a register pointer
MemWrite(a, v) == [mem EXCEPT ![a] = v]

\* line 59: let mut gic = unsafe { GicV3::new(GICD_BASE_ADDRESS, GICR_BASE_ADDRESS) }
new ==
  /\ pc = "L59"
  /\ gic' = NewGicV3(platform.gicd, platform.gicr)
  /\ Called("new", -1)
  /\ pc' = After(pc)
  /\ UNCHANGED <<spc, platform, mem, sysreg, waker, waker_logged, irq_masked,
                 writes, mem0, lq, lres>>

(* ------------------------------------------------------------------ *)
(* GicV3::setup, one action per register access                        *)
(* ------------------------------------------------------------------ *)

InSetup(at) == pc = "L60" /\ spc = at

Wrote(reg) == writes' = Append(writes, reg)

\* lines 303-305: write_sysreg!(icc_ctlr_el1, 0), logged before and after
setup_icc_ctlr ==
  /\ InSetup("entry")
  /\ sysreg' = [sysreg EXCEPT !.icc_ctlr_el1 = 0]
  /\ Wrote("icc_ctlr_el1")
  /\ Called("setup", -1)
  /\ spc' = "gicd_ctlr"
  /\ UNCHANGED <<pc, platform, gic, mem, waker, waker_logged, irq_masked,
                 mem0, lq, lres>>

\* SetupCtlr without the group 1 non-secure enable bit
SetupCtlr_NoGroup1 == Bits(Shl(1, 4))

\* let ctlr = 0x1 << 4 | 0x1 << 1
SetupCtlr == BitOr(Bits(Shl(1, 4)), Bits(Shl(1, 1)))

\* lines 308-312: enable affinity routing and group 1 non-secure interrupts
setup_gicd_ctlr ==
  /\ InSetup("gicd_ctlr")
  /\ mem' = MemWrite(GicdCtlrAddr(gic), SetupCtlr)
  /\ Wrote("gicd.ctlr")
  /\ spc' = "waker_read"
  /\ UNCHANGED <<pc, platform, gic, sysreg, waker, waker_logged, irq_masked,
                 calls, mem0, lq, lres>>

\* line 316: let mut waker = addr_of!((*self.gicr).waker).read_volatile()
setup_waker_read ==
  /\ InSetup("waker_read")
  /\ waker' = mem[WakerAddr(gic)]
  /\ spc' = "waker_write"
  /\ UNCHANGED <<pc, platform, gic, mem, sysreg, waker_logged, irq_masked,
                 writes, calls, mem0, lq, lres>>

\* WakerToWrite clearing both flags
WakerToWrite_ClearsBoth(w) == BitClear(w, PROCESSOR_SLEEP \cup CHILDREN_ASLEEP)

\* waker -= Waker::PROCESSOR_SLEEP (bitflags difference: bits & !other)
WakerToWrite(w) == BitClear(w, PROCESSOR_SLEEP)

\* setup_waker_write changing the local only, the write_volatile left out
setup_waker_write_local_only ==
  /\ InSetup("waker_write")
  /\ waker' = BitClear(waker, PROCESSOR_SLEEP)
  /\ spc' = "waker_log"
  /\ UNCHANGED <<pc, platform, gic, mem, sysreg, waker_logged, irq_masked,
                 writes, calls, mem0, lq, lres>>

\* lines 318-320: clear PROCESSOR_SLEEP in the local and write it back
setup_waker_write ==
  /\ InSetup("waker_write")
  /\ waker' = WakerToWrite(waker)
  /\ mem' = MemWrite(WakerAddr(gic), waker')
  /\ Wrote("gicr.waker")
  /\ spc' = "waker_log"
  /\ UNCHANGED <<pc, platform, gic, sysreg, waker_logged, irq_masked,
                 calls, mem0, lq, lres>>

\* line 322: info!("WAKER: {:?}", ...read_volatile()): one read, logged, not tested
setup_waker_log ==
  /\ InSetup("waker_log")
  /\ waker_logged' = mem[WakerAddr(gic)]
  /\ spc' = "igroupr"
  /\ UNCHANGED <<pc, platform, gic, mem, sysreg, waker, irq_masked,
                 writes, calls, mem0, lq, lres>>

\* the literal 0xffffffff
AllGroup1 == Word32(65535, 65535)

\* setup_igroupr writing every Distributor group word, not only igroupr[0]
setup_igroupr_every_word ==
  /\ InSetup("igroupr")
  /\ mem' = [ a \in DOMAIN mem |->
                IF a \in { RegAddr(gic, r) : r \in { x \in ModelRegs :
                             x[1] = "GICD" /\ x[2] = "igroupr" } }
                THEN AllGroup1 ELSE mem[a] ]
  /\ Wrote("gicd.igroupr[0]")
  /\ spc' = "igrpen1"
  /\ UNCHANGED <<pc, platform, gic, sysreg, waker, waker_logged, irq_masked,
                 calls, mem0, lq, lres>>

\* lines 325-328: addr_of_mut!((*self.gicd).igroupr[0]).write_volatile(0xffffffff)
setup_igroupr ==
  /\ InSetup("igroupr")
  /\ mem' = MemWrite(GicdIgroupr0Addr(gic), AllGroup1)
  /\ Wrote("gicd.igroupr[0]")
  /\ spc' = "igrpen1"
  /\ UNCHANGED <<pc, platform, gic, sysreg, waker, waker_logged, irq_masked,
                 calls, mem0, lq, lres>>

\* lines 330-334: write_sysreg!(icc_igrpen1_el1, 0x00000001), then return
setup_igrpen1 ==
  /\ InSetup("igrpen1")
  /\ sysreg' = [sysreg EXCEPT !.icc_igrpen1_el1 = 1]
  /\ Wrote("icc_igrpen1_el1")
  /\ spc' = "returned"
  /\ pc' = After(pc)
  /\ UNCHANGED <<platform, gic, mem, waker, waker_logged, irq_masked,
                 calls, mem0, lq, lres>>

(* ------------------------------------------------------------------ *)
(* The Redistributor's side of the wake handshake                      *)
(* ------------------------------------------------------------------ *)

HwWakerAddr == ElemAddr(platform.gicr, GICR, "waker", 0)

\* some time after it sees PROCESSOR_SLEEP clear, the hardware clears CHILDREN_ASLEEP
HwWakeAck ==
  /\ pc # "off"
  /\ mem[HwWakerAddr] \cap PROCESSOR_SLEEP = {}
  /\ mem[HwWakerAddr] \cap CHILDREN_ASLEEP # {}
  /\ mem' = MemWrite(HwWakerAddr, BitClear(mem[HwWakerAddr], CHILDREN_ASLEEP))
  /\ UNCHANGED <<pc, spc, platform, gic, sysreg, waker, waker_logged, irq_masked,
                 writes, calls, mem0, lq, lres>>

\* some time after it sees PROCESSOR_SLEEP set, the hardware sets CHILDREN_ASLEEP
HwSleepAck ==
  /\ pc # "off"
  /\ mem[HwWakerAddr] \cap PROCESSOR_SLEEP # {}
  /\ mem[HwWakerAddr] \cap CHILDREN_ASLEEP = {}
  /\ mem' = MemWrite(HwWakerAddr, BitOr(mem[HwWakerAddr], CHILDREN_ASLEEP))
  /\ UNCHANGED <<pc, spc, platform, gic, sysreg, waker, waker_logged, irq_masked,
                 writes, calls, mem0, lq, lres>>

(* ------------------------------------------------------------------ *)
(* The facade operations main() calls after setup()                    *)
(* ------------------------------------------------------------------ *)

\* the register holding the priority byte of an interrupt id
PriorityReg(id) ==
  IF id < 32 THEN <<"SGI", "ipriorityr", id>> ELSE <<"GICD", "ipriorityr", id>>

\* the register holding the 2-bit configuration field of an interrupt id
TriggerReg(id) ==
  IF id < 16 THEN <<"SGI", "icfgr0", 0>>
  ELSE IF id < 32 THEN <<"SGI", "icfgr1", 0>>
  ELSE <<"GICD", "icfgr", id \div 16>>

\* the upper bit of the id's 2-bit field: set is Edge, clear is Level
TriggerBit(id) == { (id % 16) * 2 + 1 }

\* the set-enable registers
EnableRegs == { r \in ModelRegs : r[2] \in {"isenabler", "isenabler_e", "isenabler0"} }

\* set_priority_mask(value): the CPU-interface priority mask
SetPriorityMask(value) == [sysreg EXCEPT !.icc_pmr_el1 = value]

\* set_interrupt_priority(id, priority): one byte of the priority array
SetInterruptPriority(g, id, priority) ==
  MemWrite(RegAddr(g, PriorityReg(id)), Bits(priority))

\* set_trigger(id, Trigger::Level): clear the id's trigger bit, keep the rest
SetTriggerLevel(g, id) ==
  LET a == RegAddr(g, TriggerReg(id))
  IN  MemWrite(a, BitClear(mem[a], TriggerBit(id)))

\* enable_all_interrupts(true): every bit of every set-enable register
EnableAllInterrupts(g) ==
  [ a \in DOMAIN mem |->
      IF a \in { RegAddr(g, r) : r \in EnableRegs } THEN WordBits ELSE mem[a] ]

\* send_sgi(intid, false, 0, 0, 0, target_list): intid in bits 24-27, the
\* target list in bits 0-15 of the SGI-generation register
SendSgi(intid, target_list) ==
  [sysreg EXCEPT !.icc_sgi1r_el1 = Shl(intid, 24) + target_list]

\* gicd_pending(0) / gicr_pending() / gicd_active(0) / gicr_active()
QueryReg(name) ==
  IF name = "gicd_pending" THEN <<"GICD", "ispendr", 0>>
  ELSE IF name = "gicr_pending" THEN <<"SGI", "ispendr0", 0>>
  ELSE IF name = "gicd_active" THEN <<"GICD", "isactiver", 0>>
  ELSE <<"SGI", "isactiver0", 0>>

\* GicV3::set_priority_mask(0xff), lines 64 and 87
set_priority_mask ==
  /\ pc \in {"L64", "L87"}
  /\ sysreg' = SetPriorityMask(255)
  /\ Called("set_priority_mask", 255)
  /\ pc' = After(pc)
  /\ UNCHANGED <<spc, platform, gic, mem, waker, waker_logged, irq_masked,
                 writes, mem0, lq, lres>>

\* the interrupt main() is arming: sgi_intid = 3 (line 63) first, then PL031_IRQ
ArmedIntid(l) == IF l \in {"L65", "L66", "L67", "L73"} THEN 3 ELSE PL031_IRQ

\* gic.set_interrupt_priority(intid, 0x80), lines 65 and 88
set_interrupt_priority ==
  /\ pc \in {"L65", "L88"}
  /\ mem' = SetInterruptPriority(gic, ArmedIntid(pc), 128)
  /\ Called("set_interrupt_priority", ArmedIntid(pc))
  /\ pc' = After(pc)
  /\ UNCHANGED <<spc, platform, gic, sysreg, waker, waker_logged, irq_masked,
                 writes, mem0, lq, lres>>

\* gic.set_trigger(PL031_IRQ, Trigger::Level), line 89
set_trigger ==
  /\ pc = "L89"
  /\ mem' = SetTriggerLevel(gic, PL031_IRQ)
  /\ Called("set_trigger", PL031_IRQ)
  /\ pc' = After(pc)
  /\ UNCHANGED <<spc, platform, gic, sysreg, waker, waker_logged, irq_masked,
                 writes, mem0, lq, lres>>

\* irq_enable(), lines 66 and 90: unmask interrupts at the CPU
irq_enable ==
  /\ pc \in {"L66", "L90"}
  /\ irq_masked' = FALSE
  /\ Called("irq_enable", ArmedIntid(pc))
  /\ pc' = After(pc)
  /\ UNCHANGED <<spc, platform, gic, mem, sysreg, waker, waker_logged,
                 writes, mem0, lq, lres>>

\* gic.enable_all_interrupts(true), lines 67 and 91
enable_all_interrupts ==
  /\ pc \in {"L67", "L91"}
  /\ mem' = EnableAllInterrupts(gic)
  /\ Called("enable_all_interrupts", ArmedIntid(pc))
  /\ pc' = After(pc)
  /\ UNCHANGED <<spc, platform, gic, sysreg, waker, waker_logged, irq_masked,
                 writes, mem0, lq, lres>>

\* the query an assert_eq!(..., 0) of lines 68-71 and 75-78 makes
QueryName(l) ==
  IF l \in {"L68", "L75"} THEN "gicd_pending"
  ELSE IF l \in {"L69", "L76"} THEN "gicr_pending"
  ELSE IF l \in {"L70", "L77"} THEN "gicd_active"
  ELSE "gicr_active"

\* assert_eq!(gic.gicd_pending(0), 0) and the three like it: panic on a non-zero word
assert_idle ==
  /\ pc \in {"L68", "L69", "L70", "L71", "L75", "L76", "L77", "L78"}
  /\ Called(QueryName(pc), 0)
  /\ pc' = IF mem[RegAddr(gic, QueryReg(QueryName(pc)))] = {} THEN After(pc)
           ELSE "panic"
  /\ UNCHANGED <<spc, platform, gic, mem, sysreg, waker, waker_logged, irq_masked,
                 writes, mem0, lq, lres>>

\* GicV3::send_sgi(sgi_intid, false, 0, 0, 0, 1), line 73
send_sgi ==
  /\ pc = "L73"
  /\ sysreg' = SendSgi(ArmedIntid(pc), 1)
  /\ Called("send_sgi", ArmedIntid(pc))
  /\ pc' = After(pc)
  /\ UNCHANGED <<spc, platform, gic, mem, waker, waker_logged, irq_masked,
                 writes, mem0, lq, lres>>

\* lines 82-85 (read the RTC), 93-99 (arm the RTC match), 100-102 (the wait
\* loop leaves when rtc.matched()), 106 (system_off): none touches the controller
rtc_step ==
  /\ pc \in {"L82", "L93", "L100", "L106"}
  /\ pc' = After(pc)
  /\ UNCHANGED <<spc, platform, gic, mem, sysreg, waker, waker_logged, irq_masked,
                 writes, calls, mem0, lq, lres>>

\* lines 109-114: the panic handler logs and powers off
panic ==
  /\ pc = "panic"
  /\ pc' = "off"
  /\ UNCHANGED <<spc, platform, gic, mem, sysreg, waker, waker_logged, irq_masked,
                 writes, calls, mem0, lq, lres>>

Next ==
  \/ new
  \/ setup_icc_ctlr
  \/ setup_gicd_ctlr
  \/ setup_waker_read
  \/ setup_waker_write
  \/ setup_waker_log
  \/ setup_igroupr
  \/ setup_igrpen1
  \/ HwWakeAck
  \/ HwSleepAck
  \/ set_priority_mask
  \/ set_interrupt_priority
  \/ set_trigger
  \/ irq_enable
  \/ enable_all_interrupts
  \/ assert_idle
  \/ send_sgi
  \/ rtc_step
  \/ panic

Spec == Init /\ [][Next]_vars

(* ------------------------------------------------------------------ *)
(* Layout of the register blocks, one field at a time                  *)
(* ------------------------------------------------------------------ *)

BlockNames == {"GICD", "GICR", "SGI"}

LayoutInit ==
  /\ pc = "off"
  /\ spc = "entry"
  /\ platform = [gicd |-> GICD_BASE_ADDRESS, gicr |-> GICR_BASE_ADDRESS]
  /\ gic = NoGic
  /\ mem = << >>
  /\ sysreg = << >>
  /\ waker = {}
  /\ waker_logged = {}
  /\ irq_masked = TRUE
  /\ writes = << >>
  /\ calls = << >>
  /\ mem0 = << >>
  /\ lq \in UNION { { <<b, i>> : i \in 0 .. Len(Layouts[b]) } : b \in BlockNames }
  /\ lres = -1

\* offset_of!(block, field i), or size_of::<block>() for i = 0
LayoutAnswer ==
  /\ lq # NoQuery
  /\ lres = -1
  /\ lres' = IF lq[2] = 0 THEN SizeOf(Layouts[lq[1]])
             ELSE FieldStart(Layouts[lq[1]], lq[2])
  /\ UNCHANGED <<pc, spc, platform, gic, mem, sysreg, waker, waker_logged,
                 irq_masked, writes, calls, mem0, lq>>

LayoutNext == LayoutAnswer

LayoutSpec == LayoutInit /\ [][LayoutNext]_vars

(* ------------------------------------------------------------------ *)
(* Properties                                                          *)
(* ------------------------------------------------------------------ *)

SetupReturned == spc = "returned"

\* C1: whenever setup() has returned, the waker register has PROCESSOR_SLEEP
\* and CHILDREN_ASLEEP both clear, whatever the initial waker value and
\* whenever the hardware acknowledges the wake.
C1_AwakeAfterSetup ==
  SetupReturned =>
    mem[WakerAddr(gic)] \cap (PROCESSOR_SLEEP \cup CHILDREN_ASLEEP) = {}

\* C2: setup() does not go on to the group configuration and the
\* ICC_IGRPEN1_EL1 write until a read of waker has shown CHILDREN_ASLEEP clear.
C2_PollsUntilAwake ==
  (pc = "L60" /\ spc \in {"igroupr", "igrpen1"}) \/ SetupReturned =>
    waker_logged \cap CHILDREN_ASLEEP = {}

\* the order of register writes the bring-up sequence is to follow
SetupWriteOrder ==
  << "icc_ctlr_el1", "gicd.ctlr", "gicr.waker", "gicd.igroupr[0]", "icc_igrpen1_el1" >>

\* C3: the register writes of setup() occur in the order ICC_CTLR_EL1,
\* Distributor ctlr, Redistributor waker, group register, ICC_IGRPEN1_EL1:
\* at any moment the writes made so far are the first ones of that order, a
\* completed setup() has made all five, and ICC_IGRPEN1_EL1 is the last.
C3_WriteOrder ==
  /\ Len(writes) <= Len(SetupWriteOrder)
  /\ writes = SubSeq(SetupWriteOrder, 1, Len(writes))
  /\ SetupReturned => writes = SetupWriteOrder
  /\ \A i \in 1 .. Len(writes) :
       writes[i] = "icc_igrpen1_el1" =>
         /\ i = Len(writes)
         /\ \E j \in 1 .. (i - 1) : writes[j] = "gicr.waker"
         /\ \E j \in 1 .. (i - 1) : writes[j] = "gicd.igroupr[0]"

C3_Witness ==
  /\ SetupReturned
  /\ Len(writes) = 5
  /\ writes[5] = "icc_igrpen1_el1"

\* C4: after setup() returns, the Distributor control register is exactly
\* 0b10010, ICC_IGRPEN1_EL1 is 1 and ICC_CTLR_EL1 is 0, whatever the
\* registers held before.
C4_ControlRegisters ==
  SetupReturned =>
    /\ mem[GicdCtlrAddr(gic)] = {1, 4}
    /\ Value(mem[GicdCtlrAddr(gic)]) = 18
    /\ sysreg.icc_igrpen1_el1 = 1
    /\ sysreg.icc_ctlr_el1 = 0

C4_Witness ==
  /\ SetupReturned
  /\ mem0[GicdCtlrAddr(gic)] = WordBits
  /\ mem[GicdCtlrAddr(gic)] = {1, 4}
  /\ sysreg.icc_igrpen1_el1 = 1

\* C5: the SGI frame pointer the facade stores is the byte address
\* gicr_base + 0x10000.
C5_SgiFrameAddress ==
  gic # NoGic => gic.sgi = platform.gicr + SGI_OFFSET

\* C6: after setup() returns, the group word of the SGI/PPI frame (interrupt
\* ids 0-31) reads 0xffffffff.
C6_SgiGroupWord ==
  SetupReturned => mem[SgiIgroupr0Addr(gic)] = WordBits

\* the architectural byte offsets of the named registers of the three blocks
ArchOffsets ==
  { <<"GICD", "ctlr", 0>>, <<"GICD", "igroupr", 128>>, <<"GICD", "isenabler", 256>>,
    <<"GICD", "ipriorityr", 1024>>, <<"GICD", "icfgr", 3072>>,
    <<"GICD", "igroupr_e", 4096>>, <<"GICD", "irouter", 24832>>,
    <<"GICD", "irouter_e", 32768>>,
    <<"GICR", "waker", 20>>, <<"GICR", "propbaser", 112>>, <<"GICR", "syncr", 192>>,
    <<"SGI", "igroupr0", 128>>, <<"SGI", "isenabler0", 256>>,
    <<"SGI", "ipriorityr", 1024>>, <<"SGI", "icfgr0", 3072>> }

\* C7: in each of the three register blocks every named field lies at its
\* architectural byte offset, and each block is exactly 0x10000 bytes, so
\* that the GICR block ends where the SGI frame (SGI_OFFSET) begins.
C7_LayoutOffsets ==
  lres # -1 =>
    /\ lq[2] = 0 => (lres = 65536 /\ lres = SGI_OFFSET)
    /\ \A e \in ArchOffsets :
         lq = <<e[1], FieldIndex(Layouts[e[1]], e[2])>> => lres = e[3]

C7_Witness ==
  /\ lq = <<"GICD", FieldIndex(GICD, "irouter_e")>>
  /\ lres = 32768

IsCall(i, name) == calls[i][1] = name

\* where the arming of another interrupt ended before call i, 0 if none did
PreviousArming(i) ==
  LET S == { k \in 1 .. (i - 1) :
               IsCall(k, "enable_all_interrupts") /\ calls[k][2] # calls[i][2] }
  IN  IF S = {} THEN 0 ELSE CHOOSE k \in S : \A m \in S : m <= k

\* C8: main() calls setup() exactly once, right after constructing the
\* facade and before every other facade operation; each irq_enable() and
\* enable_all_interrupts(true) comes after the priority-mask write and the
\* priority (and, for the RTC interrupt, trigger) configuration of the
\* interrupt being armed, and after setup() has returned.
C8_StartupOrder ==
  /\ Cardinality({ i \in 1 .. Len(calls) : IsCall(i, "setup") }) <= 1
  /\ Len(calls) >= 1 => IsCall(1, "new")
  /\ Len(calls) >= 2 => IsCall(2, "setup")
  /\ \A i \in 1 .. Len(calls) :
       IsCall(i, "irq_enable") \/ IsCall(i, "enable_all_interrupts") =>
         /\ SetupReturned
         /\ \E j \in (PreviousArming(i) + 1) .. (i - 1) :
              IsCall(j, "set_priority_mask")
         /\ \E j \in (PreviousArming(i) + 1) .. (i - 1) :
              calls[j] = <<"set_interrupt_priority", calls[i][2]>>
         /\ calls[i][2] = PL031_IRQ =>
              \E j \in (PreviousArming(i) + 1) .. (i - 1) :
                calls[j] = <<"set_trigger", PL031_IRQ>>

C8_Witness ==
  /\ pc = "L93"
  /\ Cardinality({ i \in 1 .. Len(calls) : IsCall(i, "setup") }) = 1
  /\ Cardinality({ i \in 1 .. Len(calls) : IsCall(i, "irq_enable") }) = 2
  /\ Cardinality({ i \in 1 .. Len(calls) : IsCall(i, "enable_all_interrupts") }) = 2

\* the registers setup() is to leave alone: all but the Distributor's ctlr
\* and igroupr[0] and the Redistributor's waker
KeptAddrs ==
  DOMAIN mem \ { GicdCtlrAddr(NewGicV3(platform.gicd, platform.gicr)),
                 GicdIgroupr0Addr(NewGicV3(platform.gicd, platform.gicr)),
                 HwWakerAddr }

\* C9: setup() writes exactly one group-register word, the Distributor's
\* igroupr[0]; every other group word of the Distributor and of the SGI
\* frame, and every enable, pending, active, priority and configuration
\* register, holds after setup() what it held before.
C9_OnlyFirstGroupWord ==
  /\ pc \in {"L59", "L60", "L64"} => \A a \in KeptAddrs : mem[a] = mem0[a]
  /\ SetupReturned =>
       /\ mem[GicdIgroupr0Addr(gic)] = WordBits
       /\ Cardinality({ i \in 1 .. Len(writes) : writes[i] = "gicd.igroupr[0]" }) = 1

C9_Witness ==
  /\ pc = "L64"
  /\ SetupReturned
  /\ mem0[GicdIgroupr0Addr(gic)] # WordBits
  /\ mem[GicdIgroupr0Addr(gic)] = WordBits
  /\ mem[RegAddr(gic, <<"GICD", "igroupr", 1>>)] # WordBits
  /\ mem[SgiIgroupr0Addr(gic)] # WordBits

\* C10: the value setup() writes to the waker register is the value it read
\* with only PROCESSOR_SLEEP cleared: every other bit, CHILDREN_ASLEEP
\* included, is written as read, and a value read with PROCESSOR_SLEEP
\* clear is written back unchanged.
C10_WakerWriteBack ==
  [][ (InSetup("waker_write") /\ spc' = "waker_log") =>
        /\ mem'[WakerAddr(gic)] = waker \ {1}
        /\ \A b \in WordBits \ {1} :
             b \in mem'[WakerAddr(gic)] <=> b \in waker
        /\ 1 \notin mem'[WakerAddr(gic)]
        /\ (1 \notin waker => mem'[WakerAddr(gic)] = waker) ]_vars

C10_Witness ==
  /\ pc = "L60"
  /\ spc = "waker_log"
  /\ mem0[WakerAddr(gic)] = {0, 1, 2, 31}
  /\ waker = {0, 2, 31}
  /\ mem[WakerAddr(gic)] = {0, 2, 31}

====
